---- MODULE Spec2Model ----
(***************************************************************************)
(* A model of libv4l-rs as far as the repository's sources and its         *)
(* specification describe it:                                              *)
(*                                                                         *)
(*   - FourCC (src/format/fourcc.rs): the four character code value type,  *)
(*     its equality, its u32 conversions and its Debug/Display rendering.  *)
(*     Specification SpecFourCC.                                           *)
(*   - the capture stream state machine (start/next/stop/destruction) and  *)
(*     its buffer pool, together with the capture loop of                  *)
(*     examples/stream_capture_dmabuf.rs.  Specification Spec.             *)
(*                                                                         *)
(* Text is modelled as a sequence of Unicode scalar values (a Rust String  *)
(* is one), bytes as naturals below 256, and a u32 as its two 16 bit       *)
(* halves [hi, lo], because the model checker's integers are 32 bit signed *)
(* and cannot hold every u32.                                              *)
(***************************************************************************)
EXTENDS Naturals, Sequences, FiniteSets

VARIABLES
    \* ---- FourCC ----
    fa,        \* the FourCC an operation is applied to (self)
    fb,        \* a second FourCC (other)
    fcode,     \* a u32 input
    fop,       \* the operation applied last
    fres,      \* its result
    \* ---- the capture stream and its buffer pool ----
    buffer_count,  \* the pool's size, fixed at construction
    state,         \* Created, Streaming, Stopped or Destroyed
    owner,         \* per pool index: "device" (queued) or "caller"
    devq,          \* the device's queue: the queued indices, oldest first
    filled,        \* how many buffers at the head of devq the device completed
    devOn,         \* whether the device is streaming (start control accepted)
    lastCtl,       \* the stream control the device received last
    held,          \* the index next() delivered last, <<>> when none
    delivered,     \* the buffer_index of every next() since the last start()
    fdOpen,        \* the indices whose descriptor is open
    poolReleased,  \* per index: how often the pool released its descriptor
    closes,        \* per index: how often the descriptor was closed at all
    \* ---- the caller ----
    call,          \* the operation called last
    result,        \* what it returned
    issued,        \* the device requests and releases it made, in order
    nops,          \* how many operations were called
    expc,          \* the example's place in its loop body
    outf           \* the File the example wrapped around a borrowed descriptor

fvars == <<fa, fb, fcode, fop, fres>>

svars == <<buffer_count, state, owner, devq, filled, devOn, lastCtl, held,
           delivered,
           fdOpen, poolReleased, closes, call, result, issued, nops, expc,
           outf>>

vars == <<fvars, svars>>

-----------------------------------------------------------------------------
(* Bounds of the FourCC inputs *)

\* How many of ByteList's bytes the generated tags draw from.
NumBytes == 5

\* Bytes of interest, the first NumBytes of which are used: 'A', '"', 0xff
\* (never valid in UTF-8), 0xc3 0xa9 (the two byte encoding of U+00E9),
\* '\', 'a', 0x01, newline, 0x7f.
ByteList == <<65, 34, 255, 195, 169, 92, 97, 1, 10, 127>>

Min(x, y) == IF x < y THEN x ELSE y

SampleBytes == {ByteList[i] : i \in 1..Min(NumBytes, Len(ByteList))}

\* The tags the sources name: b"YUYV", b"MJPG", [0x01, 0xff, 0x20, 0xcd],
\* and b"yuyv" (YUYV in the other letter case).
YUYV == <<89, 85, 89, 86>>
MJPG == <<77, 74, 80, 71>>
NonAscii == <<1, 255, 32, 205>>
LowerYuyv == <<121, 117, 121, 118>>

ExampleTags == {YUYV, MJPG, NonAscii, LowerYuyv}

Tags == [1..4 -> SampleBytes] \cup ExampleTags

\* other: self, self with one byte replaced, or one of the named tags
Near(t) == {t} \cup {[t EXCEPT ![i] = v] : i \in 1..4, v \in SampleBytes} \cup ExampleTags

\* u32 inputs, as halves: every value whose four bytes are sample bytes or 0
Codes == {[lo |-> b1 + 256 * b2, hi |-> b3 + 256 * b4] :
            b1 \in SampleBytes \cup {0}, b2 \in SampleBytes \cup {0},
            b3 \in SampleBytes \cup {0}, b4 \in SampleBytes \cup {0}}

-----------------------------------------------------------------------------
(* FourCC: src/format/fourcc.rs *)

\* #[derive(Default)]: repr = [0; 4]
DefaultFourCC == <<0, 0, 0, 0>>

\* FourCC::new: copies the four bytes
New(repr) == [i \in 1..4 |-> repr[i]]

\* self.repr.iter().zip(other.repr.iter()).all(|(a, b)| a == b):
\* walks the pairs from the first and stops at the first that differs.
RECURSIVE AllFrom(_, _, _)
AllFrom(x, y, i) ==
    IF i > Min(Len(x), Len(y)) THEN TRUE
    ELSE IF x[i] = y[i] THEN AllFrom(x, y, i + 1)
    ELSE FALSE

EqIgnoreCase(x, y) ==
    LET up(c) == IF c >= 97 /\ c <= 122 THEN c - 32 ELSE c
    IN  \A i \in 1..4 : up(x[i]) = up(y[i])

Eq(x, y) == AllFrom(x, y, 1)

\* u32::to_le_bytes: least significant byte first
ToLeBytes(code) ==
    <<code.lo % 256, code.lo \div 256, code.hi % 256, code.hi \div 256>>

ToBeBytes(code) ==
    <<code.hi \div 256, code.hi % 256, code.lo \div 256, code.lo % 256>>

\* u32::from_le_bytes
FromLeBytes(repr) ==
    [lo |-> repr[1] + 256 * repr[2], hi |-> repr[3] + 256 * repr[4]]

FromU32BigEndian(code) == New(ToBeBytes(code))

\* impl From<u32> for FourCC
FromU32(code) == New(ToLeBytes(code))

\* impl From<FourCC> for u32
IntoU32(fourcc) == FromLeBytes(fourcc)

-----------------------------------------------------------------------------
(* str::from_utf8, as the standard library validates and decodes *)

\* The width of the sequence a first byte announces, 0 for a byte that
\* cannot start one (a continuation byte, 0xc0, 0xc1, 0xf5 and above).
Utf8Width(b) ==
    IF b < 128 THEN 1
    ELSE IF b >= 194 /\ b <= 223 THEN 2
    ELSE IF b >= 224 /\ b <= 239 THEN 3
    ELSE IF b >= 240 /\ b <= 244 THEN 4
    ELSE 0

IsCont(b) == b >= 128 /\ b <= 191

\* Whether a well-formed sequence starts at s[i] (no overlong form, no
\* surrogate, nothing above U+10FFFF, nothing cut short).
Utf8SeqOk(s, i) ==
    LET w == Utf8Width(s[i])
    IN  /\ w > 0
        /\ i + w - 1 <= Len(s)
        /\ \A k \in 1..(w - 1) : IsCont(s[i + k])
        /\ (s[i] = 224) => s[i + 1] >= 160
        /\ (s[i] = 237) => s[i + 1] <= 159
        /\ (s[i] = 240) => s[i + 1] >= 144
        /\ (s[i] = 244) => s[i + 1] <= 143

RECURSIVE Utf8ValidFrom(_, _)
Utf8ValidFrom(s, i) ==
    IF i > Len(s) THEN TRUE
    ELSE IF Utf8SeqOk(s, i) THEN Utf8ValidFrom(s, i + Utf8Width(s[i]))
    ELSE FALSE

\* The scalar value of the well-formed sequence at s[i]
Utf8Scalar(s, i) ==
    LET w == Utf8Width(s[i])
    IN  IF w = 1 THEN s[i]
        ELSE IF w = 2 THEN (s[i] - 192) * 64 + (s[i + 1] - 128)
        ELSE IF w = 3 THEN (s[i] - 224) * 4096 + (s[i + 1] - 128) * 64
                           + (s[i + 2] - 128)
        ELSE (s[i] - 240) * 262144 + (s[i + 1] - 128) * 4096
             + (s[i + 2] - 128) * 64 + (s[i + 3] - 128)

RECURSIVE Utf8CharsFrom(_, _)
Utf8CharsFrom(s, i) ==
    IF i > Len(s) THEN <<>>
    ELSE <<Utf8Scalar(s, i)>> \o Utf8CharsFrom(s, i + Utf8Width(s[i]))

\* Result<&str, Utf8Error>: the characters, or the error
FromUtf8(s) ==
    IF Utf8ValidFrom(s, 1)
    THEN [ok |-> TRUE, chars |-> Utf8CharsFrom(s, 1)]
    ELSE [ok |-> FALSE, chars |-> <<>>]

\* FourCC::str
Str(fourcc) == FromUtf8(fourcc)

-----------------------------------------------------------------------------
(* Formatting: text is a sequence of Unicode scalar values *)

\* The literal pieces the format strings write
TextFourCCOpen == <<70, 111, 117, 114, 67, 67, 40>>    \* FourCC(
TextClose == <<41>>                                    \* )
TextSpace == <<32>>
TextQuote == <<34>>                                    \* "
TextBackslash == <<92>>

\* One lowercase hexadecimal digit
HexDigit(n) == IF n < 10 THEN 48 + n ELSE 87 + n

HexDigitUpper(n) == IF n < 10 THEN 48 + n ELSE 55 + n

Hex02Upper(b) == <<HexDigitUpper(b \div 16), HexDigitUpper(b % 16)>>

\* {:02x} of a u8: two lowercase hexadecimal digits, zero padded
Hex02(b) == <<HexDigit(b \div 16), HexDigit(b % 16)>>

\* {:x} of a scalar value: lowercase hexadecimal digits without padding
RECURSIVE HexOf(_)
HexOf(n) ==
    IF n < 16 THEN <<HexDigit(n)>>
    ELSE HexOf(n \div 16) \o <<HexDigit(n % 16)>>

\* core::unicode::printable::is_printable, for the scalar values up to
\* U+00FF; the sample bytes decode to nothing above.
IsPrintable(c) ==
    \/ c >= 32 /\ c <= 126
    \/ c >= 161 /\ c # 173

\* char::escape_debug_ext as <str as Debug> calls it: the double quote and
\* the backslash are escaped, the single quote is not.
EscapeDebug(c) ==
    IF c = 0 THEN TextBackslash \o <<48>>
    ELSE IF c = 9 THEN TextBackslash \o <<116>>
    ELSE IF c = 13 THEN TextBackslash \o <<114>>
    ELSE IF c = 10 THEN TextBackslash \o <<110>>
    ELSE IF c = 92 THEN TextBackslash \o TextBackslash
    ELSE IF c = 34 THEN TextBackslash \o TextQuote
    ELSE IF IsPrintable(c) THEN <<c>>
    ELSE TextBackslash \o <<117, 123>> \o HexOf(c) \o <<125>>

RECURSIVE EscapeAll(_)
EscapeAll(chars) ==
    IF chars = <<>> THEN <<>>
    ELSE EscapeDebug(Head(chars)) \o EscapeAll(Tail(chars))

\* <str as Debug>::fmt: the escaped characters between double quotes
StrDebug(chars) == TextQuote \o EscapeAll(chars) \o TextQuote

\* <str as Display>::fmt without width or precision: the characters
StrDisplay(chars) == chars

\* impl fmt::Debug for FourCC
DebugFmt(fourcc) ==
    LET string == FromUtf8(fourcc)
    IN  IF string.ok
        THEN TextFourCCOpen \o StrDebug(string.chars) \o TextClose
        ELSE TextFourCCOpen \o Hex02(fourcc[1]) \o TextSpace
             \o Hex02(fourcc[2]) \o TextSpace \o Hex02(fourcc[3])
             \o TextSpace \o Hex02(fourcc[4]) \o TextClose

\* impl fmt::Display for FourCC: nothing is written when the bytes are not
\* UTF-8 (the if has no else).
DisplayFmt(fourcc) ==
    LET string == FromUtf8(fourcc)
    IN  IF string.ok THEN StrDisplay(string.chars) ELSE <<>>

-----------------------------------------------------------------------------
(* The FourCC operations applied to inputs drawn from the bounded sets *)

NoResult == [kind |-> "none"]

\* The stream as the FourCC operations leave it: never constructed
StreamIdle ==
    /\ buffer_count = 0 /\ state = "Destroyed"
    /\ owner = <<>> /\ devq = <<>> /\ filled = 0 /\ devOn = FALSE
    /\ lastCtl = "none"
    /\ held = <<>> /\ delivered = <<>>
    /\ fdOpen = {} /\ poolReleased = <<>> /\ closes = <<>>
    /\ call = "none" /\ result = "none" /\ issued = <<>> /\ nops = 0
    /\ expc = "idle" /\ outf = <<>>

FourCCInit ==
    /\ \/ fa \in Tags /\ fb \in Near(fa) /\ fcode = IntoU32(DefaultFourCC)
       \/ fa = DefaultFourCC /\ fb = DefaultFourCC /\ fcode \in Codes
    /\ fop = "none"
    /\ fres = NoResult
    /\ StreamIdle

FourCCIdle ==
    /\ fa = DefaultFourCC /\ fb = DefaultFourCC
    /\ fcode = IntoU32(DefaultFourCC)
    /\ fop = "none" /\ fres = NoResult

\* self == other
DoEq ==
    /\ fop' = "eq"
    /\ fres' = [kind |-> "bool", ab |-> Eq(fa, fb), ba |-> Eq(fb, fa),
                aa |-> Eq(fa, fa)]
    /\ UNCHANGED <<fa, fb, fcode>>
    /\ UNCHANGED svars

\* FourCC::from(code), and back
DoFromU32 ==
    /\ fop' = "from_u32"
    /\ fres' = [kind |-> "fourcc", fourcc |-> FromU32(fcode),
                back |-> IntoU32(FromU32(fcode))]
    /\ UNCHANGED <<fa, fb, fcode>>
    /\ UNCHANGED svars

\* u32::from(fourcc), and back
DoIntoU32 ==
    /\ fop' = "into_u32"
    /\ fres' = [kind |-> "u32", code |-> IntoU32(fa),
                back |-> FromU32(IntoU32(fa))]
    /\ UNCHANGED <<fa, fb, fcode>>
    /\ UNCHANGED svars

\* format!("{:?}", self) and format!("{:?}", other)
DoDebug ==
    /\ fop' = "debug"
    /\ fres' = [kind |-> "text", text |-> DebugFmt(fa), other |-> DebugFmt(fb)]
    /\ UNCHANGED <<fa, fb, fcode>>
    /\ UNCHANGED svars

\* format!("{}", self) and format!("{}", other)
DoDisplay ==
    /\ fop' = "display"
    /\ fres' = [kind |-> "text", text |-> DisplayFmt(fa),
                other |-> DisplayFmt(fb)]
    /\ UNCHANGED <<fa, fb, fcode>>
    /\ UNCHANGED svars

FourCCNext == DoEq \/ DoFromU32 \/ DoIntoU32 \/ DoDebug \/ DoDisplay

SpecFourCC == FourCCInit /\ [][FourCCNext]_vars

-----------------------------------------------------------------------------
(* Bounds of the stream *)

\* The largest buffer_count a stream is constructed with
MaxBuffers == 4

\* How many operations are called on one stream
MaxOps == 11

-----------------------------------------------------------------------------
(* The capture stream: its state machine and its buffer pool *)

Indices == 0..(buffer_count - 1)

\* The pool indices in index order, as a sequence
IndexSeq == [i \in 1..buffer_count |-> i - 1]

QueuedSet == {i \in Indices : owner[i] = "device"}

Ioctl(op) == [op |-> op]
BufIoctl(op, i) == [op |-> op, index |-> i]

\* One dequeue per buffer the device still owns, in queue order
DrainAll == [i \in 1..Len(devq) |-> BufIoctl("DQBUF", devq[i])]

ReleaseAll == [i \in 1..buffer_count |-> BufIoctl("RELEASE", i - 1)]

\* What every operation does to the caller's record of it
Called(op, res, reqs) ==
    /\ nops < MaxOps
    /\ nops' = nops + 1
    /\ call' = op
    /\ result' = res
    /\ issued' = reqs

\* CaptureStream::with_buffers: the pool is allocated, one exported
\* descriptor per slot, and the stream is Created.
StreamInit ==
    /\ buffer_count \in 1..MaxBuffers
    /\ state = "Created"
    /\ owner = [i \in Indices |-> "caller"]
    /\ devq = <<>> /\ filled = 0 /\ devOn = FALSE
    /\ lastCtl = "none"
    /\ held = <<>> /\ delivered = <<>>
    /\ fdOpen = Indices
    /\ poolReleased = [i \in Indices |-> 0]
    /\ closes = [i \in Indices |-> 0]
    /\ call = "with_buffers" /\ result = "Ok" /\ issued = <<>> /\ nops = 0
    /\ expc = "idle" /\ outf = <<>>

Init == StreamInit /\ FourCCIdle

\* The caller-owned indices in index order: what start() has to queue
ToQueue == SelectSeq(IndexSeq, LAMBDA i : owner[i] = "caller")

QueueReqs == [k \in 1..Len(ToQueue) |-> BufIoctl("QBUF", ToQueue[k])]

pool == <<fdOpen, poolReleased, closes>>
example == <<expc, outf>>
queue == <<owner, devq, filled, devOn, lastCtl, held, delivered>>

StartAllowedAlways == TRUE

\* start() is for a stream that is Created or Stopped
StartAllowed == state \in {"Created", "Stopped"}

NextAllowedAlways == TRUE

\* next() is for a stream that is Streaming
NextAllowed == state = "Streaming"

NeverStopsFirst == FALSE

\* Destruction performs stop() first if the stream is Streaming
StopsFirst == state = "Streaming"

RequeueFirst(q, h) == h \o q

\* The buffer delivered before goes to the end of the device's queue
Requeue(q, h) == q \o h

\* start(): InvalidState while Streaming.  From Created or Stopped every
\* buffer is queued, then the start control is issued; the device accepts
\* it (Streaming) or rejects it (StreamError, the state stays).
Start ==
    /\ state # "Destroyed" /\ expc = "idle"
    /\ IF ~StartAllowed
       THEN /\ Called("start", "InvalidState", <<>>)
            /\ UNCHANGED <<state, queue>>
       ELSE \E accepted \in BOOLEAN :
            /\ Called("start", IF accepted THEN "Ok" ELSE "Io",
                      QueueReqs \o <<Ioctl("STREAMON")>>)
            /\ owner' = [i \in Indices |-> "device"]
            /\ devq' = devq \o ToQueue
            /\ filled' = 0
            /\ devOn' = (devOn \/ accepted)
            /\ lastCtl' = "STREAMON"
            /\ state' = IF accepted THEN "Streaming" ELSE state
            /\ held' = <<>>
            /\ delivered' = <<>>
    /\ UNCHANGED <<buffer_count, pool, example, fvars>>

\* The device completes the oldest queued buffer it has not completed yet.
DeviceComplete ==
    /\ devOn
    /\ filled < Len(devq)
    /\ filled' = filled + 1
    /\ UNCHANGED <<buffer_count, state, owner, devq, devOn, lastCtl, held,
                   delivered, pool, call, result, issued, nops, example, fvars>>

\* next(): InvalidState unless Streaming; Timeout, the state as it was,
\* while the device has completed nothing; else the oldest completed buffer
\* is dequeued, the buffer delivered before is queued again, and the
\* dequeued buffer's index is returned.
StreamNext ==
    /\ state # "Destroyed" /\ expc = "idle"
    /\ IF ~NextAllowed
       THEN /\ Called("next", "InvalidState", <<>>)
            /\ UNCHANGED <<state, queue>>
       ELSE IF filled = 0
       THEN /\ Called("next", "Timeout", <<>>)
            /\ UNCHANGED <<state, queue>>
       ELSE LET idx == Head(devq)
            IN  /\ Called("next", "Ok",
                          <<BufIoctl("DQBUF", idx)>>
                          \o [k \in 1..Len(held) |-> BufIoctl("QBUF", held[k])])
                /\ devq' = Requeue(Tail(devq), held)
                /\ owner' = [i \in Indices |->
                                IF i = idx THEN "caller"
                                ELSE IF held = <<i>> THEN "device"
                                ELSE owner[i]]
                /\ filled' = filled - 1
                /\ held' = <<idx>>
                /\ delivered' = Append(delivered, idx)
                /\ UNCHANGED <<state, devOn, lastCtl>>
    /\ UNCHANGED <<buffer_count, pool, example, fvars>>

\* stop(): from Streaming the stop control is issued, then every buffer the
\* device still owns is dequeued; otherwise nothing is done.
Stop ==
    /\ state # "Destroyed" /\ expc = "idle"
    /\ IF state = "Streaming"
       THEN /\ Called("stop", "Ok", <<Ioctl("STREAMOFF")>> \o DrainAll)
            /\ devOn' = FALSE
            /\ lastCtl' = "STREAMOFF"
            /\ owner' = [i \in Indices |-> "caller"]
            /\ devq' = <<>>
            /\ filled' = 0
            /\ held' = <<>>
            /\ state' = "Stopped"
            /\ UNCHANGED delivered
       ELSE /\ Called("stop", "Ok", <<>>)
            /\ UNCHANGED <<state, queue>>
    /\ UNCHANGED <<buffer_count, pool, example, fvars>>

\* Destruction: stop() first if Streaming, then the pool is deallocated:
\* every slot's descriptor is released.
Destroy ==
    /\ state # "Destroyed" /\ expc \in {"idle", "returning"}
    /\ LET streaming == StopsFirst
       IN  /\ Called("drop", "Ok",
                     (IF streaming THEN <<Ioctl("STREAMOFF")>> \o DrainAll
                      ELSE <<>>) \o ReleaseAll)
           /\ devOn' = IF streaming THEN FALSE ELSE devOn
           /\ lastCtl' = IF streaming THEN "STREAMOFF" ELSE lastCtl
           /\ owner' = IF streaming THEN [i \in Indices |-> "caller"] ELSE owner
           /\ devq' = IF streaming THEN <<>> ELSE devq
           /\ filled' = IF streaming THEN 0 ELSE filled
    /\ held' = <<>>
    /\ state' = "Destroyed"
    /\ fdOpen' = {}
    /\ poolReleased' = [i \in Indices |-> poolReleased[i] + 1]
    /\ closes' = [i \in Indices |-> closes[i] + 1]
    /\ expc' = "idle"
    /\ UNCHANGED <<buffer_count, delivered, outf, fvars>>

-----------------------------------------------------------------------------
(* The capture loop of examples/stream_capture_dmabuf.rs, for a buffer      *)
(* next() has just delivered                                                *)

\* let outf = unsafe { File::from_raw_fd(buf.as_raw_fd()) };
ExFromRawFd ==
    /\ expc = "idle" /\ state = "Streaming"
    /\ call = "next" /\ result = "Ok"
    /\ outf' = held
    /\ expc' = "wrapped"
    /\ UNCHANGED <<buffer_count, state, queue, pool, call, result, issued,
                   nops, fvars>>

\* let outfmap = unsafe { memmap2::Mmap::map(&outf) }?;  the mapping succeeds
ExMmapOk ==
    /\ expc = "wrapped"
    /\ expc' = "mapped"
    /\ UNCHANGED <<buffer_count, state, queue, pool, call, result, issued,
                   nops, outf, fvars>>

\* ... or fails: ? returns from main, outf is dropped and File's drop closes
\* the descriptor; the stream is dropped next.
ExMmapErr ==
    /\ expc = "wrapped"
    /\ fdOpen' = fdOpen \ {outf[1]}
    /\ closes' = [closes EXCEPT ![outf[1]] = @ + 1]
    /\ outf' = <<>>
    /\ expc' = "returning"
    /\ call' = "drop_file" /\ result' = "Ok" /\ issued' = <<>>
    /\ UNCHANGED <<buffer_count, state, queue, poolReleased, nops, fvars>>

\* let _ = File::into_raw_fd(outf);  the File gives the descriptor up unclosed
ExIntoRawFd ==
    /\ expc = "mapped"
    /\ outf' = <<>>
    /\ expc' = "idle"
    /\ call' = "into_raw_fd" /\ result' = "Ok" /\ issued' = <<>>
    /\ UNCHANGED <<buffer_count, state, queue, pool, nops, fvars>>

Next ==
    \/ Start
    \/ DeviceComplete
    \/ StreamNext
    \/ Stop
    \/ Destroy
    \/ ExFromRawFd
    \/ ExMmapOk
    \/ ExMmapErr
    \/ ExIntoRawFd

Spec == Init /\ [][Next]_vars

-----------------------------------------------------------------------------
(* Properties of FourCC, under SpecFourCC *)

BytewiseEqual(x, y) == \A i \in 1..4 : x[i] = y[i]

\* C6: FourCC equality is exact byte-wise equality: a == b holds if and only
\* if the four bytes agree position by position, so YUYV == YUYV, YUYV # MJPG
\* and tags that differ only in letter case are unequal; the relation is
\* reflexive, symmetric and transitive.
C6_EqIsBytewise ==
    fop = "eq" =>
        /\ fres.ab = BytewiseEqual(fa, fb)
        /\ fres.aa
        /\ fres.ab = fres.ba
        /\ \A t \in Near(fb) : (fres.ab /\ Eq(fb, t)) => Eq(fa, t)
        /\ (fa = YUYV /\ fb = YUYV) => fres.ab
        /\ (fa = YUYV /\ fb = MJPG) => ~fres.ab
        /\ (fa = YUYV /\ fb = LowerYuyv) => ~fres.ab

\* YUYV was compared with yuyv and found unequal
C6_Witness ==
    fop = "eq" /\ fa = YUYV /\ fb = LowerYuyv /\ fres.ab = FALSE

\* (code >> 8 * i) mod 256 for i = 0..3, on the halves of the code
ShiftedByte(code, i) ==
    IF i = 0 THEN code.lo % 256
    ELSE IF i = 1 THEN (code.lo \div 256) % 256
    ELSE IF i = 2 THEN code.hi % 256
    ELSE (code.hi \div 256) % 256

\* C7: the conversion between FourCC and u32 is little-endian and a lossless
\* round trip both ways: FourCC::from(code).repr[i] = (code >> 8i) mod 256,
\* u32::from(FourCC::from(code)) = code, and FourCC::from(u32::from(f)) = f.
C7_LittleEndianRoundTrip ==
    /\ fop = "from_u32" =>
            /\ \A i \in 0..3 : fres.fourcc[i + 1] = ShiftedByte(fcode, i)
            /\ fres.back = fcode
    /\ fop = "into_u32" =>
            /\ \A i \in 0..3 : ShiftedByte(fres.code, i) = fa[i + 1]
            /\ fres.back = fa

\* a code whose first and last byte differ was converted
C7_Witness ==
    /\ fop = "from_u32"
    /\ ShiftedByte(fcode, 0) # ShiftedByte(fcode, 3)
    /\ fres.fourcc[1] = ShiftedByte(fcode, 0)

PrintableAscii(t) == \A i \in 1..4 : t[i] >= 32 /\ t[i] <= 126

\* 0123456789abcdef
HexChars == <<48, 49, 50, 51, 52, 53, 54, 55, 56, 57, 97, 98, 99, 100, 101, 102>>

TwoHex(b) == <<HexChars[(b \div 16) + 1], HexChars[(b % 16) + 1]>>

\* FourCC(xx xx xx xx)
HexRendering(t) ==
    TextFourCCOpen \o TwoHex(t[1]) \o <<32>> \o TwoHex(t[2]) \o <<32>>
    \o TwoHex(t[3]) \o <<32>> \o TwoHex(t[4]) \o <<41>>

\* FourCC("cccc"), the four characters as they are
QuotedRendering(t) == TextFourCCOpen \o <<34>> \o t \o <<34, 41>>

\* FourCC("cccc"), a double quote and a backslash preceded by a backslash
RECURSIVE BackslashEscaped(_)
BackslashEscaped(t) ==
    IF t = <<>> THEN <<>>
    ELSE (IF Head(t) \in {34, 92} THEN <<92, Head(t)>> ELSE <<Head(t)>>)
         \o BackslashEscaped(Tail(t))

EscapedRendering(t) ==
    TextFourCCOpen \o <<34>> \o BackslashEscaped(t) \o <<34, 41>>

C9_DisplayFallsBackToHex ==
    fop = "display" =>
        /\ Utf8ValidFrom(fa, 1) => fres.text = Utf8CharsFrom(fa, 1)
        /\ ~Utf8ValidFrom(fa, 1) =>
               /\ fres.text # <<>>
               /\ (~Utf8ValidFrom(fb, 1) /\ fa # fb) => fres.text # fres.other

-----------------------------------------------------------------------------
(* Properties of the stream, under Spec *)

\* A step that is a call of an operation
IsCall(op) == nops' # nops /\ call' = op

Has(reqs, r) == \E j \in 1..Len(reqs) : reqs[j] = r

TornDown ==
    /\ state = "Destroyed"
    /\ \A i \in Indices : owner[i] = "caller"
    /\ devq = <<>> /\ filled = 0 /\ held = <<>>
    /\ ~devOn /\ lastCtl = "STREAMOFF"
    /\ fdOpen = {}
    /\ \A i \in Indices : poolReleased[i] = 1

C4_AsStated ==
    [][nops' # nops =>
           /\ (call' = "start" /\ state = "Streaming") =>
                  /\ result' = "InvalidState"
                  /\ ~Has(issued', Ioctl("STREAMON"))
           /\ (call' = "start" /\ result' = "Ok") =>
                  state \in {"Created", "Stopped"}
           /\ (call' = "stop" /\ state = "Stopped") =>
                  result' = "Ok" /\ issued' = <<>> /\ UNCHANGED <<state, queue>>
           /\ Has(issued', Ioctl("STREAMON")) => lastCtl # "STREAMON"]_vars

\* C4, amended: start() while Streaming fails with InvalidState and issues
\* no start control, start() succeeds only from Created or Stopped, stop() on
\* a Stopped stream does nothing and succeeds, and the device never receives
\* a start control while it is streaming: a start control the device
\* accepted is followed by a stop control before the next start control.
C4_Exclusivity ==
    [][nops' # nops =>
           /\ (call' = "start" /\ state = "Streaming") =>
                  /\ result' = "InvalidState"
                  /\ ~Has(issued', Ioctl("STREAMON"))
                  /\ UNCHANGED <<state, queue>>
           /\ (call' = "start" /\ result' = "Ok") =>
                  state \in {"Created", "Stopped"} /\ state' = "Streaming"
           /\ (call' = "stop" /\ state = "Stopped") =>
                  result' = "Ok" /\ issued' = <<>> /\ UNCHANGED <<state, queue>>
           /\ Has(issued', Ioctl("STREAMON")) => ~devOn]_vars

\* start() was called on a Streaming stream and failed
C4_Witness ==
    /\ call = "start" /\ result = "InvalidState" /\ state = "Streaming"
    /\ devOn /\ lastCtl = "STREAMON" /\ issued = <<>>

\* C5: while the stream is Created, Stopped or Destroyed no pool index is
\* device-owned, so the pool is never deallocated with a buffer queued.
C5_NoneQueuedOutsideStreaming ==
    state \in {"Created", "Stopped", "Destroyed"} => QueuedSet = {}

\* C10: the example never closes the descriptor it borrows from the dequeued
\* buffer: on every path out of a loop iteration the descriptor is closed by
\* the pool alone, and at most once.
C10_BorrowedNeverClosed ==
    \A i \in Indices : closes[i] = poolReleased[i] /\ closes[i] <= 1

====
